---------------------------- MODULE Spec2Model ----------------------------
(***************************************************************************)
(* ruscii: the cell grid (Canvas), the display surface (Window) and the    *)
(* fixed-timestep loop (App::run), modelled from src/src/terminal.rs and   *)
(* src/src/app.rs.                                                         *)
(***************************************************************************)
EXTENDS Integers, Sequences, FiniteSets, TLC

VARIABLES
    fps,       \* Config.fps
    pc,        \* position of the control flow inside App::run
    running,   \* State.running
    step,      \* State.step
    dt,        \* State.dt
    slept,     \* duration handed to thread::sleep in the latest frame, -1: none
    result,    \* outcome of panic::catch_unwind: "none", "Ok" or "Err"
    canvas,    \* Window.canvas
    target,    \* Window.target: commands queued in the BufWriter, not yet flushed
    term,      \* the terminal: raw input mode, alternate screen, cursor hidden
    query,     \* the latest call on the canvas or Window::clear, and its result
    cbOps,     \* operations the current frame_action invocation has made
    stopAt,    \* invocation of frame_action that last called State::stop and
               \* did not call State::run after it, 0: none
    failedIn,  \* where the panic caught by catch_unwind was raised, "none": nowhere
    devlog,    \* device operations of the latest Window::open/draw/close call
    log        \* the steps App::run has taken, in order

vars == << fps, pc, running, step, dt, slept, result, canvas, target, term,
           query, cbOps, stopAt, failedIn, devlog, log >>

---------------------------------------------------------------------------
(* Bounds of the model *)

MaxSide == 2
MaxCells == 4
MaxFrames == 2
MaxCbOps == 1

---------------------------------------------------------------------------
(* Color, Style, VisualElement *)

Named(n) == [name |-> n, idx |-> 0]
Xterm(code) == [name |-> "Xterm", idx |-> code]

Code(c) ==
    CASE c.name = "Black" -> 16
      [] c.name = "White" -> 231
      [] c.name = "Grey" -> 244
      [] c.name = "DarkGrey" -> 238
      [] c.name = "LightGrey" -> 250
      [] c.name = "Red" -> 196
      [] c.name = "Green" -> 46
      [] c.name = "Blue" -> 21
      [] c.name = "Cyan" -> 51
      [] c.name = "Yellow" -> 226
      [] c.name = "Magenta" -> 201
      [] c.name = "Xterm" -> c.idx

VisualElementNew ==
    [style |-> "Plain", background |-> Named("Black"),
     foreground |-> Named("White"), value |-> " "]

\* the elements the model draws with: the default one, one whose foreground
\* is another Color of the same code, one that differs in both colors
Elems ==
    {VisualElementNew,
     [style |-> "Plain", background |-> Named("Black"),
      foreground |-> Xterm(231), value |-> "#"],
     [style |-> "Bold", background |-> Named("Blue"),
      foreground |-> Named("Red"), value |-> "@"]}

Vec2(x, y) == [x |-> x, y |-> y]

\* display sizes the terminal reports, zero width and height included
Sizes ==
    {d \in {Vec2(w, h) : w \in 0..MaxSide, h \in 0..MaxSide} :
       d.x * d.y <= MaxCells}

\* positions the callback addresses, one step outside the largest grid included
Positions == {Vec2(x, y) : x \in (-1)..MaxSide, y \in (-1)..MaxSide}

---------------------------------------------------------------------------
(* Canvas *)

CanvasNew(dimension, default_element) ==
    [data |-> [i \in 1..(dimension.x * dimension.y) |-> default_element],
     dimension |-> dimension,
     default_element |-> default_element]

set_default_element(c, element) == [c EXCEPT !.default_element = element]

\* contains with the right and lower edges taken as inside
contains_inclusive(c, pos) ==
    /\ 0 <= pos.x
    /\ 0 <= pos.y
    /\ pos.x <= c.dimension.x
    /\ pos.y <= c.dimension.y

contains(c, pos) ==
    /\ 0 <= pos.x
    /\ 0 <= pos.y
    /\ pos.x < c.dimension.x
    /\ pos.y < c.dimension.y

\* the offset without the multiplication by the width
OffsetNoWidth(c, pos) == pos.y + pos.x

\* the offset into data, counted from 0 as in the source
Offset(c, pos) == pos.y * c.dimension.x + pos.x

None == [kind |-> "None"]
Some(e) == [kind |-> "Some", elem |-> e]
IndexPanic == [kind |-> "panic"]

\* Canvas::elem; indexing data out of its bounds panics
CanvasElem(c, pos) ==
    IF contains(c, pos)
    THEN IF Offset(c, pos) >= 0 /\ Offset(c, pos) < Len(c.data)
         THEN Some(c.data[Offset(c, pos) + 1])
         ELSE IndexPanic
    ELSE None

\* Canvas::elem_mut followed by the store of e through the returned reference
CanvasElemMut(c, pos, e) ==
    IF contains(c, pos)
    THEN IF Offset(c, pos) >= 0 /\ Offset(c, pos) < Len(c.data)
         THEN [res |-> Some(e),
               canvas |-> [c EXCEPT !.data[Offset(c, pos) + 1] = e]]
         ELSE [res |-> IndexPanic, canvas |-> c]
    ELSE [res |-> None, canvas |-> c]

\* a fill that leaves the first cell as it was
CanvasFillFromSecond(c, elem) ==
    [c EXCEPT !.data = [i \in 1..Len(c.data) |->
                          IF i = 1 THEN c.data[1] ELSE elem]]

CanvasFill(c, elem) == [c EXCEPT !.data = [i \in 1..Len(c.data) |-> elem]]

CanvasClear(c) == CanvasFill(c, c.default_element)

---------------------------------------------------------------------------
(* Window: the device operations of each method, in source order *)

Queue(cmd) == [op |-> "queue", cmd |-> cmd]
raw_mode(enable) == [op |-> "raw_mode", enable |-> enable]
Flush == [op |-> "flush"]

SetForegroundColor(code) == [c |-> "SetForegroundColor", code |-> code]
SetBackgroundColor(code) == [c |-> "SetBackgroundColor", code |-> code]
PrintCmd(ch) == [c |-> "Print", ch |-> ch]
MoveTo(x, y) == [c |-> "MoveTo", x |-> x, y |-> y]
Plain(name) == [c |-> name]

\* clean_state without the two color commands
clean_state_move_only(c) == << Queue(MoveTo(0, 0)) >>

clean_state(c) ==
    << Queue(SetForegroundColor(Code(c.default_element.foreground))),
       Queue(SetBackgroundColor(Code(c.default_element.background))),
       Queue(MoveTo(0, 0)) >>

\* the loop of Window::draw without the update of the tracked colors
RECURSIVE SweepNoTrack(_, _, _, _)
SweepNoTrack(data, i, last_foreground, last_background) ==
    IF i > Len(data) THEN << >>
    ELSE LET element == data[i]
             fg == IF last_foreground # element.foreground
                   THEN << Queue(SetForegroundColor(Code(element.foreground))) >>
                   ELSE << >>
             bg == IF last_background # element.background
                   THEN << Queue(SetBackgroundColor(Code(element.background))) >>
                   ELSE << >>
         IN  fg \o bg \o << Queue(PrintCmd(element.value)) >>
                \o SweepNoTrack(data, i + 1, last_foreground, last_background)

\* the loop of Window::draw over data[i..], with the tracked last colors
RECURSIVE Sweep(_, _, _, _)
Sweep(data, i, last_foreground, last_background) ==
    IF i > Len(data) THEN << >>
    ELSE LET element == data[i]
             fg == IF last_foreground # element.foreground
                   THEN << Queue(SetForegroundColor(Code(element.foreground))) >>
                   ELSE << >>
             bg == IF last_background # element.background
                   THEN << Queue(SetBackgroundColor(Code(element.background))) >>
                   ELSE << >>
         IN  fg \o bg \o << Queue(PrintCmd(element.value)) >>
                \o Sweep(data, i + 1, element.foreground, element.background)

\* Window::draw with the tracked colors starting from those of
\* VisualElement::new()
DrawOpsFromNew(c) ==
    clean_state(c)
      \o Sweep(c.data, 1, VisualElementNew.foreground,
               VisualElementNew.background)
      \o clean_state(c)
      \o << Flush >>

DrawOps(c) ==
    clean_state(c)
      \o Sweep(c.data, 1, c.default_element.foreground,
               c.default_element.background)
      \o clean_state(c)
      \o << Flush >>

OpenOps(c) ==
    << Queue(Plain("EnterAlternateScreen")),
       Queue(Plain("ResetColor")),
       Queue(Plain("SetAttributeReset")),
       Queue(Plain("Hide")) >>
      \o clean_state(c)
      \o << raw_mode(TRUE), Flush >>

\* Window::close without raw_mode(false)
CloseOpsKeepRaw ==
    << Queue(Plain("Show")),
       Queue(Plain("SetAttributeReset")),
       Queue(Plain("ResetColor")),
       Queue(Plain("LeaveAlternateScreen")),
       Flush >>

\* Window::close with raw_mode(false) after the commands
CloseOpsRawLast ==
    << Queue(Plain("Show")),
       Queue(Plain("SetAttributeReset")),
       Queue(Plain("ResetColor")),
       Queue(Plain("LeaveAlternateScreen")),
       raw_mode(FALSE),
       Flush >>

\* Window::close without the Show command
CloseOpsKeepHidden ==
    << raw_mode(FALSE),
       Queue(Plain("SetAttributeReset")),
       Queue(Plain("ResetColor")),
       Queue(Plain("LeaveAlternateScreen")),
       Flush >>

CloseOps ==
    << raw_mode(FALSE),
       Queue(Plain("Show")),
       Queue(Plain("SetAttributeReset")),
       Queue(Plain("ResetColor")),
       Queue(Plain("LeaveAlternateScreen")),
       Flush >>

\* Window::clear rebuilding the canvas with VisualElement::new()
WindowClearLosesDefault(c, size1, size2) ==
    IF c.dimension # size1
    THEN CanvasNew(size2, VisualElementNew)
    ELSE CanvasFill(c, c.default_element)

\* Window::clear taking the new dimension without rebuilding the cells
WindowClearKeepsData(c, size1, size2) ==
    IF c.dimension # size1
    THEN CanvasFill([c EXCEPT !.dimension = size2], c.default_element)
    ELSE CanvasFill(c, c.default_element)

\* Window::clear: size() is asked once for the comparison and once more for
\* the rebuild
WindowClear(c, size1, size2) ==
    IF c.dimension # size1
    THEN CanvasNew(size2, c.default_element)
    ELSE CanvasFill(c, c.default_element)

---------------------------------------------------------------------------
(* The terminal driver *)

\* the terminal after it has received one command
Receive(t, cmd) ==
    CASE cmd.c = "EnterAlternateScreen" -> [t EXCEPT !.alt = TRUE]
      [] cmd.c = "LeaveAlternateScreen" -> [t EXCEPT !.alt = FALSE]
      [] cmd.c = "Hide" -> [t EXCEPT !.hidden = TRUE]
      [] cmd.c = "Show" -> [t EXCEPT !.hidden = FALSE]
      [] OTHER -> t

RECURSIVE Deliver(_, _)
Deliver(t, cmds) ==
    IF cmds = << >> THEN t ELSE Deliver(Receive(t, Head(cmds)), Tail(cmds))

\* the buffer and the terminal after one device operation that succeeds
Do(dev, o) ==
    CASE o.op = "queue" -> [dev EXCEPT !.target = Append(@, o.cmd)]
      [] o.op = "raw_mode" -> [dev EXCEPT !.term.raw = o.enable]
      [] o.op = "flush" ->
            [target |-> << >>, term |-> Deliver(dev.term, dev.target)]

RECURSIVE Exec(_, _)
Exec(dev, ops) ==
    IF ops = << >> THEN dev ELSE Exec(Do(dev, Head(ops)), Tail(ops))

Dev == [target |-> target, term |-> term]

\* the buffer and the terminal once operation k of ops has failed: the
\* operations before it are done, and a flush that fails has written some
\* part of the buffer
FailOutcomes(dev, ops, k) ==
    LET d == Exec(dev, SubSeq(ops, 1, k - 1))
    IN  IF ops[k].op = "flush"
        THEN {[target |-> SubSeq(d.target, j + 1, Len(d.target)),
               term |-> Deliver(d.term, SubSeq(d.target, 1, j))] :
                 j \in 0..Len(d.target)}
        ELSE {d}

---------------------------------------------------------------------------
(* Config and State *)

\* the frame rates an App is configured with: the one of Config::new, and
\* those Config::fps is given
FpsValues == {0, 30, 60}

\* the frame budget rounded up instead of down
expected_duration_up == (1000000000 + fps - 1) \div fps

\* expected_duration, in nanoseconds
expected_duration == 1000000000 \div fps

\* the elapsed times a frame is measured to take
Elapsed == {0, expected_duration - 1, expected_duration, expected_duration + 1}

NoQuery == [fn |-> "none"]

Init ==
    /\ fps \in FpsValues
    /\ pc = "NotStarted"
    /\ running = FALSE
    /\ step = 0
    /\ dt = 0
    /\ slept = -1
    /\ result = "none"
    /\ \E size \in Sizes : canvas = CanvasNew(size, VisualElementNew)
    /\ target = << >>
    /\ term = [raw |-> FALSE, alt |-> FALSE, hidden |-> FALSE]
    /\ query = NoQuery
    /\ cbOps = 0
    /\ stopAt = 0
    /\ failedIn = "none"
    /\ devlog = << >>
    /\ log = << >>

Count(seq, e) == Cardinality({i \in 1..Len(seq) : seq[i] = e})

\* invocations of frame_action so far
Calls == Count(log, "call")

---------------------------------------------------------------------------
(* App::run *)

appVars == << running, step, dt, slept, stopAt >>
winVars == << canvas, target, term, devlog >>
cbVars == << query, cbOps >>

\* a panic unwinding to catch_unwind
Caught(where, event) ==
    /\ result' = "Err"
    /\ failedIn' = where
    /\ pc' = "notice"
    /\ log' = Append(log, event)

\* the division of expected_duration by a frame rate of zero panics, before
\* self.state.run() and outside catch_unwind
RunDivisionPanics ==
    /\ pc = "NotStarted"
    /\ fps = 0
    /\ pc' = "panicked"
    /\ log' = Append(log, "division_by_zero")
    /\ UNCHANGED << result, failedIn >>
    /\ UNCHANGED appVars
    /\ UNCHANGED winVars
    /\ UNCHANGED cbVars
    /\ UNCHANGED fps

\* expected_duration is computed, then self.state.run(), then into the closure
RunEnter ==
    /\ pc = "NotStarted"
    /\ fps # 0
    /\ running' = TRUE
    /\ pc' = "open"
    /\ log' = Append(log, "run")
    /\ UNCHANGED << step, dt, slept, stopAt, result, failedIn >>
    /\ UNCHANGED winVars
    /\ UNCHANGED cbVars
    /\ UNCHANGED fps

OpenOk ==
    /\ pc = "open"
    /\ LET d == Exec(Dev, OpenOps(canvas))
       IN  /\ target' = d.target
           /\ term' = d.term
    /\ devlog' = OpenOps(canvas)
    /\ pc' = "while"
    /\ log' = Append(log, "open")
    /\ UNCHANGED << canvas, result, failedIn >>
    /\ UNCHANGED appVars
    /\ UNCHANGED cbVars
    /\ UNCHANGED fps

OpenFail ==
    /\ pc = "open"
    /\ \E k \in 1..Len(OpenOps(canvas)) :
         /\ \E d \in FailOutcomes(Dev, OpenOps(canvas), k) :
              /\ target' = d.target
              /\ term' = d.term
         /\ devlog' = SubSeq(OpenOps(canvas), 1, k - 1)
    /\ Caught("open", "open_failed")
    /\ UNCHANGED canvas
    /\ UNCHANGED appVars
    /\ UNCHANGED cbVars
    /\ UNCHANGED fps

\* while self.state.is_running(); the model follows MaxFrames frames
WhileEnter ==
    /\ pc = "while"
    /\ running
    /\ step < MaxFrames
    /\ pc' = "clear"
    /\ log' = Append(log, "frame")
    /\ devlog' = << >>
    /\ UNCHANGED << canvas, target, term, result, failedIn >>
    /\ UNCHANGED appVars
    /\ UNCHANGED cbVars
    /\ UNCHANGED fps

WhileExit ==
    /\ pc = "while"
    /\ ~running
    /\ pc' = "close"
    /\ UNCHANGED << log, result, failedIn >>
    /\ UNCHANGED appVars
    /\ UNCHANGED winVars
    /\ UNCHANGED cbVars
    /\ UNCHANGED fps

\* some cell differs from the default element
Dirty(c) == \E i \in 1..Len(c.data) : c.data[i] # c.default_element

\* what Window::clear was called on and what size() returned to it
Cleared(c, size1, size2) ==
    [fn |-> "clear", size1 |-> size1, size2 |-> size2, was |-> c.dimension,
     default_element |-> c.default_element, dirty |-> Dirty(c)]

\* Window::clear leading straight to frame_action, without
\* consume_key_events
ClearOkThenCall ==
    /\ pc = "clear"
    /\ \E size1 \in Sizes :
         \E size2 \in (IF canvas.dimension # size1 THEN Sizes ELSE {size1}) :
           /\ canvas' = WindowClear(canvas, size1, size2)
           /\ query' = Cleared(canvas, size1, size2)
    /\ pc' = "call"
    /\ log' = Append(log, "clear")
    /\ UNCHANGED << cbOps, target, term, devlog, result, failedIn >>
    /\ UNCHANGED appVars
    /\ UNCHANGED fps

ClearOk ==
    /\ pc = "clear"
    /\ \E size1 \in Sizes :
         \E size2 \in (IF canvas.dimension # size1 THEN Sizes ELSE {size1}) :
           /\ canvas' = WindowClear(canvas, size1, size2)
           /\ query' = Cleared(canvas, size1, size2)
    /\ pc' = "input"
    /\ log' = Append(log, "clear")
    /\ UNCHANGED << cbOps, target, term, devlog, result, failedIn >>
    /\ UNCHANGED appVars
    /\ UNCHANGED fps

\* size() fails
ClearFail ==
    /\ pc = "clear"
    /\ Caught("clear", "clear_failed")
    /\ UNCHANGED appVars
    /\ UNCHANGED winVars
    /\ UNCHANGED cbVars
    /\ UNCHANGED fps

ConsumeKeyEvents ==
    /\ pc = "input"
    /\ pc' = "call"
    /\ log' = Append(log, "input")
    /\ UNCHANGED << result, failedIn >>
    /\ UNCHANGED appVars
    /\ UNCHANGED winVars
    /\ UNCHANGED cbVars
    /\ UNCHANGED fps

\* frame_action(&mut self.state, &mut self.window) is entered
CallFrameAction ==
    /\ pc = "call"
    /\ pc' = "callback"
    /\ cbOps' = 0
    /\ query' = NoQuery
    /\ log' = Append(log, "call")
    /\ UNCHANGED << result, failedIn >>
    /\ UNCHANGED appVars
    /\ UNCHANGED winVars
    /\ UNCHANGED fps

\* *window.canvas_mut().elem_mut(pos) = e, when the position is present;
\* indexing data out of its bounds would panic inside the callback
CbElemMut ==
    /\ pc = "callback"
    /\ cbOps < MaxCbOps
    /\ \E pos \in Positions, e \in Elems :
         LET r == CanvasElemMut(canvas, pos, e)
         IN  IF r.res.kind = "panic"
             THEN /\ Caught("callback", "panic")
                  /\ query' = NoQuery
                  /\ cbOps' = 0
                  /\ UNCHANGED canvas
             ELSE /\ query' = [fn |-> "elem_mut", pos |-> pos, res |-> r.res]
                  /\ canvas' = r.canvas
                  /\ cbOps' = cbOps + 1
                  /\ UNCHANGED << pc, result, failedIn, log >>
    /\ UNCHANGED << target, term, devlog >>
    /\ UNCHANGED appVars
    /\ UNCHANGED fps

\* state.stop()
CbStop ==
    /\ pc = "callback"
    /\ running' = FALSE
    /\ stopAt' = Calls
    /\ UNCHANGED << pc, step, dt, slept, result, failedIn, log >>
    /\ UNCHANGED winVars
    /\ UNCHANGED cbVars
    /\ UNCHANGED fps

\* state.run(): the callback takes back a stop
CbRun ==
    /\ pc = "callback"
    /\ running' = TRUE
    /\ stopAt' = 0
    /\ UNCHANGED << pc, step, dt, slept, result, failedIn, log >>
    /\ UNCHANGED winVars
    /\ UNCHANGED cbVars
    /\ UNCHANGED fps

\* the return of frame_action leading to the end of the loop when the flag
\* is cleared
CbReturnChecksFlag ==
    /\ pc = "callback"
    /\ pc' = IF running THEN "draw" ELSE "close"
    /\ query' = NoQuery
    /\ cbOps' = 0
    /\ log' = Append(log, "ret")
    /\ UNCHANGED << result, failedIn >>
    /\ UNCHANGED appVars
    /\ UNCHANGED winVars
    /\ UNCHANGED fps

CbReturn ==
    /\ pc = "callback"
    /\ pc' = "draw"
    /\ query' = NoQuery
    /\ cbOps' = 0
    /\ log' = Append(log, "ret")
    /\ UNCHANGED << result, failedIn >>
    /\ UNCHANGED appVars
    /\ UNCHANGED winVars
    /\ UNCHANGED fps

\* the callback panics
CbPanic ==
    /\ pc = "callback"
    /\ query' = NoQuery
    /\ cbOps' = 0
    /\ Caught("callback", "panic")
    /\ UNCHANGED appVars
    /\ UNCHANGED winVars
    /\ UNCHANGED fps

DrawOk ==
    /\ pc = "draw"
    /\ LET d == Exec(Dev, DrawOps(canvas))
       IN  /\ target' = d.target
           /\ term' = d.term
    /\ devlog' = DrawOps(canvas)
    /\ pc' = "update"
    /\ log' = Append(log, "draw")
    /\ UNCHANGED << canvas, result, failedIn >>
    /\ UNCHANGED appVars
    /\ UNCHANGED cbVars
    /\ UNCHANGED fps

DrawFail ==
    /\ pc = "draw"
    /\ \E k \in 1..Len(DrawOps(canvas)) :
         /\ \E d \in FailOutcomes(Dev, DrawOps(canvas), k) :
              /\ target' = d.target
              /\ term' = d.term
         /\ devlog' = SubSeq(DrawOps(canvas), 1, k - 1)
    /\ Caught("draw", "draw_failed")
    /\ UNCHANGED canvas
    /\ UNCHANGED appVars
    /\ UNCHANGED cbVars
    /\ UNCHANGED fps

\* the update with the step counter left alone
UpdateKeepsStep ==
    /\ pc = "update"
    /\ \E elapsed \in Elapsed : dt' = elapsed
    /\ pc' = "sleep"
    /\ log' = Append(log, "update")
    /\ UNCHANGED << running, step, slept, stopAt, result, failedIn >>
    /\ UNCHANGED winVars
    /\ UNCHANGED cbVars
    /\ UNCHANGED fps

\* self.state.dt = now.elapsed(); self.state.step += 1
Update ==
    /\ pc = "update"
    /\ \E elapsed \in Elapsed : dt' = elapsed
    /\ step' = step + 1
    /\ pc' = "sleep"
    /\ log' = Append(log, "update")
    /\ UNCHANGED << running, slept, stopAt, result, failedIn >>
    /\ UNCHANGED winVars
    /\ UNCHANGED cbVars
    /\ UNCHANGED fps

\* expected_duration.checked_sub(self.state.dt)
checked_sub(a, b) == IF a >= b THEN a - b ELSE -1

Sleep ==
    /\ pc = "sleep"
    /\ slept' = checked_sub(expected_duration, dt)
    /\ pc' = "while"
    /\ log' = Append(log, IF slept' >= 0 THEN "sleep" ELSE "nosleep")
    /\ UNCHANGED << running, step, dt, stopAt, result, failedIn >>
    /\ UNCHANGED winVars
    /\ UNCHANGED cbVars
    /\ UNCHANGED fps

\* the closure ending without self.window.close()
CloseOkSkipped ==
    /\ pc = "close"
    /\ result' = "Ok"
    /\ pc' = "returned"
    /\ UNCHANGED << failedIn, log >>
    /\ UNCHANGED appVars
    /\ UNCHANGED winVars
    /\ UNCHANGED cbVars
    /\ UNCHANGED fps

\* self.window.close() as the last statement of the closure
CloseOk ==
    /\ pc = "close"
    /\ LET d == Exec(Dev, CloseOps)
       IN  /\ target' = d.target
           /\ term' = d.term
    /\ devlog' = CloseOps
    /\ result' = "Ok"
    /\ pc' = "returned"
    /\ log' = Append(log, "close")
    /\ UNCHANGED << canvas, failedIn >>
    /\ UNCHANGED appVars
    /\ UNCHANGED cbVars
    /\ UNCHANGED fps

CloseFail ==
    /\ pc = "close"
    /\ \E k \in 1..Len(CloseOps) :
         /\ \E d \in FailOutcomes(Dev, CloseOps, k) :
              /\ target' = d.target
              /\ term' = d.term
         /\ devlog' = SubSeq(CloseOps, 1, k - 1)
    /\ Caught("close", "close_failed")
    /\ UNCHANGED canvas
    /\ UNCHANGED appVars
    /\ UNCHANGED cbVars
    /\ UNCHANGED fps

\* println!("\n\n[Press 'enter' to recover the terminal]")
Notice ==
    /\ pc = "notice"
    /\ pc' = "read"
    /\ log' = Append(log, "notice")
    /\ UNCHANGED << result, failedIn >>
    /\ UNCHANGED appVars
    /\ UNCHANGED winVars
    /\ UNCHANGED cbVars
    /\ UNCHANGED fps

\* io::stdin().lock().lines().next() yields Some(Ok(line))
ReadLine ==
    /\ pc = "read"
    /\ pc' = "reclose"
    /\ log' = Append(log, "read")
    /\ UNCHANGED << result, failedIn >>
    /\ UNCHANGED appVars
    /\ UNCHANGED winVars
    /\ UNCHANGED cbVars
    /\ UNCHANGED fps

\* it yields None (end of input) or Some(Err(_)): the unwrap panics, outside
\* catch_unwind
ReadFail ==
    /\ pc = "read"
    /\ pc' = "panicked"
    /\ \E e \in {"read_eof", "read_err"} : log' = Append(log, e)
    /\ UNCHANGED << result, failedIn >>
    /\ UNCHANGED appVars
    /\ UNCHANGED winVars
    /\ UNCHANGED cbVars
    /\ UNCHANGED fps

\* self.window.close() of the Err branch
RecloseOk ==
    /\ pc = "reclose"
    /\ LET d == Exec(Dev, CloseOps)
       IN  /\ target' = d.target
           /\ term' = d.term
    /\ devlog' = CloseOps
    /\ pc' = "returned"
    /\ log' = Append(log, "close")
    /\ UNCHANGED << canvas, result, failedIn >>
    /\ UNCHANGED appVars
    /\ UNCHANGED cbVars
    /\ UNCHANGED fps

RecloseFail ==
    /\ pc = "reclose"
    /\ \E k \in 1..Len(CloseOps) :
         /\ \E d \in FailOutcomes(Dev, CloseOps, k) :
              /\ target' = d.target
              /\ term' = d.term
         /\ devlog' = SubSeq(CloseOps, 1, k - 1)
    /\ pc' = "panicked"
    /\ log' = Append(log, "close_failed")
    /\ UNCHANGED << canvas, result, failedIn >>
    /\ UNCHANGED appVars
    /\ UNCHANGED cbVars
    /\ UNCHANGED fps

Next ==
    \/ RunDivisionPanics
    \/ RunEnter
    \/ OpenOk
    \/ OpenFail
    \/ WhileEnter
    \/ WhileExit
    \/ ClearOk
    \/ ClearFail
    \/ ConsumeKeyEvents
    \/ CallFrameAction
    \/ CbElemMut
    \/ CbStop
    \/ CbRun
    \/ CbReturn
    \/ CbPanic
    \/ DrawOk
    \/ DrawFail
    \/ Update
    \/ Sleep
    \/ CloseOk
    \/ CloseFail
    \/ Notice
    \/ ReadLine
    \/ ReadFail
    \/ RecloseOk
    \/ RecloseFail

Spec == Init /\ [][Next]_vars

---------------------------------------------------------------------------
(* A Window driven through its public methods, outside App::run *)

\* what every such call leaves alone
WindowCall ==
    /\ pc = "NotStarted"
    /\ UNCHANGED << pc, result, failedIn, log, cbOps >>
    /\ UNCHANGED appVars
    /\ UNCHANGED fps

\* window.canvas().elem(pos)
WinElem ==
    /\ WindowCall
    /\ \E pos \in Positions :
         query' = [fn |-> "elem", pos |-> pos, res |-> CanvasElem(canvas, pos)]
    /\ devlog' = << >>
    /\ UNCHANGED << canvas, target, term >>

\* *window.canvas_mut().elem_mut(pos) = e, when the position is present
WinElemMut ==
    /\ WindowCall
    /\ \E pos \in Positions, e \in Elems :
         /\ query' = [fn |-> "elem_mut", pos |-> pos,
                      res |-> CanvasElemMut(canvas, pos, e).res]
         /\ canvas' = CanvasElemMut(canvas, pos, e).canvas
    /\ devlog' = << >>
    /\ UNCHANGED << target, term >>

\* window.canvas_mut().fill(&e)
WinFill ==
    /\ WindowCall
    /\ \E e \in Elems :
         /\ canvas' = CanvasFill(canvas, e)
         /\ query' = [fn |-> "fill", elem |-> e]
    /\ devlog' = << >>
    /\ UNCHANGED << target, term >>

\* window.canvas_mut().clear()
WinCanvasClear ==
    /\ WindowCall
    /\ canvas' = CanvasClear(canvas)
    /\ query' = [fn |-> "Canvas::clear", dirty |-> Dirty(canvas)]
    /\ devlog' = << >>
    /\ UNCHANGED << target, term >>

WinSetDefaultElement ==
    /\ WindowCall
    /\ \E e \in Elems : canvas' = set_default_element(canvas, e)
    /\ query' = NoQuery
    /\ devlog' = << >>
    /\ UNCHANGED << target, term >>

\* *window.canvas_mut() = Canvas::new(dimension, &e)
WinCanvasNew ==
    /\ WindowCall
    /\ \E dimension \in Sizes, e \in Elems : canvas' = CanvasNew(dimension, e)
    /\ query' = NoQuery
    /\ devlog' = << >>
    /\ UNCHANGED << target, term >>

\* window.clear(), the display having any size by now
WinClear ==
    /\ WindowCall
    /\ \E size1 \in Sizes :
         \E size2 \in (IF canvas.dimension # size1 THEN Sizes ELSE {size1}) :
           /\ canvas' = WindowClear(canvas, size1, size2)
           /\ query' = Cleared(canvas, size1, size2)
    /\ devlog' = << >>
    /\ UNCHANGED << target, term >>

\* window.draw(); again: the call before it was a draw as well
WinDraw ==
    /\ WindowCall
    /\ LET d == Exec(Dev, DrawOps(canvas))
       IN  /\ target' = d.target
           /\ term' = d.term
    /\ devlog' = DrawOps(canvas)
    /\ query' = [fn |-> "draw", again |-> query.fn = "draw"]
    /\ UNCHANGED canvas

\* window.open()
WinOpen ==
    /\ WindowCall
    /\ LET d == Exec(Dev, OpenOps(canvas))
       IN  /\ target' = d.target
           /\ term' = d.term
    /\ devlog' = OpenOps(canvas)
    /\ query' = [fn |-> "open"]
    /\ UNCHANGED canvas

\* window.close(); again: the call before it was a close as well; found: the
\* terminal as the first close of such a row found it
WinClose ==
    /\ WindowCall
    /\ LET d == Exec(Dev, CloseOps)
       IN  /\ target' = d.target
           /\ term' = d.term
    /\ devlog' = CloseOps
    /\ query' = [fn |-> "close", again |-> query.fn = "close",
                 found |-> IF query.fn = "close" THEN query.found ELSE term]
    /\ UNCHANGED canvas

NextWindow ==
    \/ WinElem
    \/ WinElemMut
    \/ WinFill
    \/ WinCanvasClear
    \/ WinSetDefaultElement
    \/ WinCanvasNew
    \/ WinClear
    \/ WinDraw
    \/ WinOpen
    \/ WinClose

\* the window of an App that has the frame rate of Config::new
InitWindow == Init /\ fps = 30

SpecWindow == InitWindow /\ [][NextWindow]_vars

---------------------------------------------------------------------------
(* Claims about App::run, checked under Spec *)

IndexOf(seq, e) == CHOOSE i \in 1..Len(seq) : seq[i] = e
LastIndexOf(seq, e) ==
    CHOOSE i \in 1..Len(seq) :
      seq[i] = e /\ \A j \in (i + 1)..Len(seq) : seq[j] # e
Has(seq, e) == \E i \in 1..Len(seq) : seq[i] = e

Restored == ~term.raw /\ ~term.alt
Ended == pc \in {"returned", "panicked"}

\* C1: once a panic raised inside the loop body (Window::clear, frame_action,
\* Window::draw) has been caught, the terminal is out of raw mode and off the
\* alternate screen before the recovery notice is printed and while the line
\* of operator input is awaited.
C1_RestoredBeforeNotice ==
    (failedIn \in {"clear", "callback", "draw"} /\ pc \in {"notice", "read"})
        => Restored

\* C2: however App::run ends once Window::open has been entered, the terminal
\* is left neither in raw mode nor on the alternate screen.
C2_NeverLeftRaw ==
    (Ended /\ (Has(log, "open") \/ Has(log, "open_failed"))) => Restored

\* the events of log after the first occurrence of e
After(seq, e) == SubSeq(seq, IndexOf(seq, e) + 1, Len(seq))

C4_NormalExit ==
    (pc = "returned" /\ failedIn = "none")
        => /\ result = "Ok"
           /\ stopAt >= 1
           /\ Count(log, "open") = 1
           /\ Count(log, "open_failed") = 0
           /\ Count(log, "close") = 1
           /\ Count(log, "close_failed") = 0
           /\ log[Len(log)] = "close"
           /\ Has(log, "draw")
           /\ LastIndexOf(log, "draw") < IndexOf(log, "close")
           /\ IndexOf(log, "open") < IndexOf(log, "draw")
           /\ Restored

C4_Witness ==
    /\ pc = "returned"
    /\ failedIn = "none"
    /\ Count(log, "draw") = 2

\* C5, as stated: a callback that calls stop during its N-th invocation
\* makes App::run return with step = N.
C5_Original == (pc = "returned" /\ stopAt > 0) => step = stopAt

\* C5, amended: at every iteration boundary step is the number of frames
\* whose callback returned; step never decreases and changes, like dt, only
\* in the update after draw, by one; once a callback has failed step and dt
\* stay as they are; and a callback that calls stop during its N-th
\* invocation makes App::run return with step = N when that invocation
\* returns and the draw of its frame does not fail.
C5_StepPerFrame ==
    /\ [](pc = "while" => step = Count(log, "ret"))
    /\ [](pc = "sleep" => (step = Count(log, "draw") /\ step = Calls))
    /\ []((pc = "returned" /\ stopAt > 0 /\ failedIn \notin {"callback", "draw"})
            => step = stopAt)
    /\ [][/\ step' >= step
          /\ (step' # step \/ dt' # dt)
               => (pc = "update" /\ log[Len(log)] = "draw" /\ step' = step + 1)
          /\ failedIn' = "callback" => (step' = step /\ dt' = dt)]_vars

C5_Witness == pc = "returned" /\ stopAt = 2 /\ step = 2

\* C6: after App::run has returned through the failure-recovery path,
\* State::is_running() is false.
C6_StoppedAfterRecovery == (pc = "returned" /\ result = "Err") => ~running

---------------------------------------------------------------------------
(* Claims about Canvas and Window, checked under SpecWindow *)

\* how many of the operations queue the command called name
CountCmd(ops, name) ==
    Cardinality({i \in 1..Len(ops) : ops[i].op = "queue" /\ ops[i].cmd.c = name})

\* every cell has the same foreground and the same background
Uniform(c) ==
    \A i, j \in 1..Len(c.data) :
      /\ c.data[i].foreground = c.data[j].foreground
      /\ c.data[i].background = c.data[j].background

\* the latest call on the window was draw, of the canvas as it is now
Drawn == pc = "NotStarted" /\ query.fn = "draw"

\* the operations of the cell sweep: those between the two clean_state calls
SweepOf(ops) == SubSeq(ops, 4, Len(ops) - 4)

\* C7, as stated: a draw of a canvas whose cells all have the same colors
\* queues the set-foreground command at most once and the set-background
\* command at most once, every such command of the draw counted.
C7_Original ==
    (Drawn /\ Uniform(canvas))
        => /\ CountCmd(devlog, "SetForegroundColor") <= 1
           /\ CountCmd(devlog, "SetBackgroundColor") <= 1

\* C7, amended: in a draw of a canvas whose cells all have the same colors,
\* the cell sweep queues the set-foreground command at most once and the
\* set-background command at most once, each exactly when there is a cell and
\* its color differs from the default element's; each of the two clean_state
\* calls of the draw queues one of each in addition.
C7_UniformDraw ==
    (Drawn /\ Uniform(canvas))
        => LET fg == CountCmd(SweepOf(devlog), "SetForegroundColor")
               bg == CountCmd(SweepOf(devlog), "SetBackgroundColor")
               d == canvas.default_element
           IN  /\ fg <= 1
               /\ bg <= 1
               /\ fg = 1 <=> (canvas.data # << >>
                              /\ canvas.data[1].foreground # d.foreground)
               /\ bg = 1 <=> (canvas.data # << >>
                              /\ canvas.data[1].background # d.background)
               /\ CountCmd(devlog, "SetForegroundColor") = fg + 2
               /\ CountCmd(devlog, "SetBackgroundColor") = bg + 2
               /\ CountCmd(devlog, "Print") = Len(canvas.data)

C7_Witness ==
    /\ Drawn
    /\ Uniform(canvas)
    /\ Len(canvas.data) >= 3
    /\ canvas.data[1].foreground # canvas.default_element.foreground
    /\ canvas.data[1].background # canvas.default_element.background

\* C8: after Window::clear the canvas has width*height cells, all equal to
\* the default element, which is the one configured before the call; its
\* dimension is the display size when that differed from the dimension the
\* canvas had, and the dimension it had otherwise.
C8_ClearRebuilds ==
    query.fn = "clear"
        => /\ canvas.default_element = query.default_element
           /\ Len(canvas.data) = canvas.dimension.x * canvas.dimension.y
           /\ \A i \in 1..Len(canvas.data) :
                canvas.data[i] = query.default_element
           /\ canvas.dimension =
                IF query.size1 # query.was THEN query.size2 ELSE query.was

C8_Witness ==
    /\ pc = "NotStarted"
    /\ query.fn = "clear"
    /\ query.dirty
    /\ query.size1 # query.was
    /\ query.default_element # VisualElementNew
    /\ canvas.dimension.x * canvas.dimension.y > query.was.x * query.was.y
    /\ query.was.x * query.was.y > 0

\* C9: in every reachable state the cell sequence of the canvas has exactly
\* width*height cells of its current dimension.
C9_LengthIsArea == Len(canvas.data) = canvas.dimension.x * canvas.dimension.y

C9_Witness ==
    /\ pc = "NotStarted"
    /\ query.fn = "clear"
    /\ query.dirty
    /\ query.was.x * query.was.y > 0
    /\ canvas.dimension.x = 0
    /\ canvas.dimension.y > 0

\* C10: Canvas::elem and Canvas::elem_mut return a present result exactly
\* for the positions with 0 <= x < width and 0 <= y < height, an absent one
\* for every other position, and never fail.
C10_PresentIffInBounds ==
    query.fn \in {"elem", "elem_mut"}
        => /\ query.res.kind \in {"Some", "None"}
           /\ query.res.kind = "Some"
                <=> /\ query.pos.x \in 0..(canvas.dimension.x - 1)
                    /\ query.pos.y \in 0..(canvas.dimension.y - 1)
           /\ (query.fn = "elem" /\ query.res.kind = "Some")
                => query.res.elem
                     = canvas.data[query.pos.y * canvas.dimension.x
                                     + query.pos.x + 1]

C10_Witness ==
    /\ pc = "NotStarted"
    /\ query.fn = "elem"
    /\ query.res.kind = "None"
    /\ query.pos.x = canvas.dimension.x
    /\ query.pos.y = 0
    /\ canvas.dimension.x > 0
    /\ canvas.dimension.y > 1

\* C11: a store through elem_mut at a position inside the canvas changes
\* what elem returns at that position to the stored element, leaves what
\* elem returns at every other position, the dimension and the default
\* element as they were, and an elem call at the same position right after
\* it returns the stored element.
C11_WriteThenRead ==
    [][/\ (query'.fn = "elem_mut" /\ query'.res.kind = "Some")
            => /\ contains(canvas, query'.pos)
               /\ CanvasElem(canvas', query'.pos) = query'.res
               /\ \A p \in Positions :
                    p # query'.pos => CanvasElem(canvas', p) = CanvasElem(canvas, p)
               /\ canvas'.dimension = canvas.dimension
               /\ canvas'.default_element = canvas.default_element
               /\ Len(canvas'.data) = Len(canvas.data)
       /\ (/\ query.fn = "elem_mut"
           /\ query.res.kind = "Some"
           /\ query'.fn = "elem"
           /\ query'.pos = query.pos)
            => query'.res = query.res]_vars

\* a store into a grid of four cells that holds three different elements
\* afterwards
C11_Witness ==
    /\ pc = "NotStarted"
    /\ query.fn = "elem_mut"
    /\ query.res.kind = "Some"
    /\ query.pos = Vec2(1, 0)
    /\ canvas.dimension = Vec2(2, 2)
    /\ canvas.data[2] = query.res.elem
    /\ canvas.data[3] # canvas.data[2]
    /\ canvas.data[1] # canvas.data[2]
    /\ canvas.data[1] # canvas.data[3]
    /\ canvas.default_element # VisualElementNew

\* C12: after Canvas::fill(E) elem returns E at every position inside the
\* canvas and nothing outside it; Canvas::clear leaves the canvas as
\* fill(default_element()) does: every cell is the default element the canvas
\* had; both leave the dimension and the default element as they were.
C12_FillAndClear ==
    [][/\ query'.fn = "fill"
            => /\ \A p \in Positions :
                    CanvasElem(canvas', p) =
                      IF contains(canvas, p) THEN Some(query'.elem) ELSE None
               /\ \A i \in 1..Len(canvas'.data) : canvas'.data[i] = query'.elem
               /\ canvas'.dimension = canvas.dimension
               /\ canvas'.default_element = canvas.default_element
               /\ Len(canvas'.data) = Len(canvas.data)
       /\ query'.fn = "Canvas::clear"
            => /\ canvas' = CanvasFill(canvas, canvas.default_element)
               /\ \A p \in Positions :
                    CanvasElem(canvas', p) =
                      IF contains(canvas, p)
                      THEN Some(canvas.default_element) ELSE None
               /\ canvas'.dimension = canvas.dimension
               /\ canvas'.default_element = canvas.default_element
               /\ Len(canvas'.data) = Len(canvas.data)]_vars

\* a Canvas::clear of a grid of four cells, some of which differed from the
\* default element, which is not the initial one
C12_Witness ==
    /\ pc = "NotStarted"
    /\ query.fn = "Canvas::clear"
    /\ query.dirty
    /\ canvas.dimension = Vec2(2, 2)
    /\ canvas.default_element # VisualElementNew
    /\ \A i \in 1..4 : canvas.data[i] = canvas.default_element

---------------------------------------------------------------------------
(* Claims about the frame timing, checked under Spec *)

\* the frame budget B in nanoseconds
Budget == 1000000000 \div fps

\* the latest step of App::run was the end-of-frame sleep decision
AfterSleep == log # << >> /\ log[Len(log)] \in {"sleep", "nosleep"}

\* C13: B is the largest whole number of nanoseconds with B * fps at most
\* one second; after every frame that was completed, with measured time dt,
\* the loop has slept for B - dt when dt < B (for no time when dt = B) and
\* has not slept when dt > B, whatever the earlier frames took.
C13_SleepsTheRest ==
    AfterSleep
        => /\ Budget * fps <= 1000000000
           /\ 1000000000 < (Budget + 1) * fps
           /\ dt < Budget => slept = Budget - dt
           /\ dt = Budget => slept = 0
           /\ dt > Budget => slept = -1
           /\ log[Len(log)] = "sleep" <=> dt <= Budget
           /\ Count(log, "sleep") + Count(log, "nosleep") = step

\* the second frame is one nanosecond short of the budget after a first
\* frame that overran it, at 60 frames a second
C13_Witness ==
    /\ AfterSleep
    /\ fps = 60
    /\ step = 2
    /\ log[Len(log)] = "sleep"
    /\ Count(log, "nosleep") = 1
    /\ dt = 16666665
    /\ slept = 1

---------------------------------------------------------------------------
(* Claims about Window::open, close and draw, checked under SpecWindow *)

\* the terminal in cooked mode, on the main screen, with the cursor shown
Closed == term = [raw |-> FALSE, alt |-> FALSE, hidden |-> FALSE]

\* C14: after Window::close the terminal is out of raw mode, shows the
\* cursor and the main screen, has been sent the two reset commands, and
\* nothing is left in the buffer; a close made right after a close issues
\* the same operations, none of which depends on the mode the terminal is in,
\* and leaves the terminal and the buffer as the first close left them.
C14_CloseTwice ==
    /\ [](query.fn = "close"
            => /\ Closed
               /\ target = << >>
               /\ CountCmd(devlog, "SetAttributeReset") = 1
               /\ CountCmd(devlog, "ResetColor") = 1)
    /\ [][(query.fn = "close" /\ query'.fn = "close")
            => /\ query'.again
               /\ term' = term
               /\ target' = target
               /\ devlog' = devlog]_vars

\* a second close right after the close of a window that had been opened
C14_Witness ==
    /\ pc = "NotStarted"
    /\ query.fn = "close"
    /\ query.again
    /\ query.found.raw
    /\ query.found.alt
    /\ query.found.hidden
    /\ Closed

---------------------------------------------------------------------------
(* Claims about Window::close inside App::run, checked under Spec *)

\* the place of a device operation in the order of Window::close, 0: none
CloseRank(o) ==
    CASE o = raw_mode(FALSE) -> 1
      [] o = Queue(Plain("Show")) -> 2
      [] o = Queue(Plain("SetAttributeReset")) -> 3
      [] o = Queue(Plain("ResetColor")) -> 3
      [] o = Queue(Plain("LeaveAlternateScreen")) -> 4
      [] o = Flush -> 5
      [] OTHER -> 0

\* the latest step of App::run was a call of Window::close
AfterClose == log # << >> /\ log[Len(log)] \in {"close", "close_failed"}

\* C15: the device operations of every Window::close are, in this order,
\* raw mode disabled, cursor shown, the two resets, alternate screen left,
\* flush: no operation is repeated, a close that returns has made all six with
\* its one flush last, and a close that fails has made the ones before the
\* failing one; so the leave command is never queued, and never reaches the
\* terminal, before raw mode is disabled.
C15_CloseOrder ==
    AfterClose
        => /\ \A i \in 1..Len(devlog) : CloseRank(devlog[i]) # 0
           /\ \A i, j \in 1..Len(devlog) :
                i < j => /\ CloseRank(devlog[i]) <= CloseRank(devlog[j])
                         /\ devlog[i] # devlog[j]
           /\ \A i \in 1..Len(devlog) :
                CloseRank(devlog[i]) = i - (IF i > 3 THEN 1 ELSE 0)
           /\ log[Len(log)] = "close"
                => /\ Len(devlog) = 6
                   /\ devlog[1] = raw_mode(FALSE)
                   /\ devlog[5] = Queue(Plain("LeaveAlternateScreen"))
                   /\ devlog[6] = Flush
                   /\ Count(devlog, Flush) = 1
                   /\ Closed
           /\ log[Len(log)] = "close_failed"
                => /\ Len(devlog) < 6
                   /\ (~term.alt /\ Has(log, "open")) => ~term.raw

\* the close at the end of a run of two frames
C15_Witness ==
    /\ pc = "returned"
    /\ result = "Ok"
    /\ step = 2
    /\ AfterClose
    /\ Len(devlog) = 6

---------------------------------------------------------------------------
(* Claims about the sweep of Window::draw, checked under SpecWindow *)

\* the element before cell i in row-major order, the default element for
\* the first cell
Before(c, i) == IF i = 1 THEN c.default_element ELSE c.data[i - 1]

\* the cells whose foreground, and whose background, differs from that of
\* the element before them
FgTransitions(c) ==
    {i \in 1..Len(c.data) : c.data[i].foreground # Before(c, i).foreground}
BgTransitions(c) ==
    {i \in 1..Len(c.data) : c.data[i].background # Before(c, i).background}

\* what the sweep queues for the cells from i on, by the rule of the claim
RECURSIVE ByTransitions(_, _)
ByTransitions(c, i) ==
    IF i > Len(c.data) THEN << >>
    ELSE (IF i \in FgTransitions(c)
          THEN << Queue(SetForegroundColor(Code(c.data[i].foreground))) >>
          ELSE << >>)
         \o (IF i \in BgTransitions(c)
             THEN << Queue(SetBackgroundColor(Code(c.data[i].background))) >>
             ELSE << >>)
         \o << Queue(PrintCmd(c.data[i].value)) >>
         \o ByTransitions(c, i + 1)

\* C16: the sweep of every draw queues, cell by cell in row-major order, the
\* set-foreground command exactly when the cell's foreground differs from
\* that of the cell before it (the default element's for the first cell),
\* then the set-background command under the same condition, then the cell's
\* character; so it queues as many color commands as there are such
\* transitions, also when the draw follows another draw.
C16_CommandPerTransition ==
    Drawn
        => /\ SweepOf(devlog) = ByTransitions(canvas, 1)
           /\ CountCmd(SweepOf(devlog), "SetForegroundColor")
                = Cardinality(FgTransitions(canvas))
           /\ CountCmd(SweepOf(devlog), "SetBackgroundColor")
                = Cardinality(BgTransitions(canvas))
           /\ CountCmd(SweepOf(devlog), "Print") = Len(canvas.data)

\* a draw right after a draw, of four cells that alternate between the
\* default element and one of other colors; the last cell, which the draw
\* before ended on, has other colors than the first
C16_Witness ==
    /\ Drawn
    /\ query.again
    /\ Len(canvas.data) = 4
    /\ canvas.default_element # VisualElementNew
    /\ canvas.data[1] = canvas.default_element
    /\ canvas.data[3] = canvas.data[1]
    /\ canvas.data[2] = canvas.data[4]
    /\ canvas.data[2].foreground # canvas.data[1].foreground
    /\ canvas.data[2].background # canvas.data[1].background
    /\ Cardinality(FgTransitions(canvas)) = 3
    /\ CountCmd(SweepOf(devlog), "SetBackgroundColor") = 3

---------------------------------------------------------------------------
(* Claims about the order of the steps of App::run, checked under Spec *)

\* the events of log after the last occurrence of e
AfterLast(seq, e) == SubSeq(seq, LastIndexOf(seq, e) + 1, Len(seq))

\* sleep decisions taken so far
Sleeps == Count(log, "sleep") + Count(log, "nosleep")

\* C17, as stated: every run that has ended has invoked frame_action at
\* least once, and when frame_action has called stop during frame k the run
\* ends with frame k drawn, counted in step and followed by its sleep
\* decision.
C17_Original ==
    Ended
        => /\ Calls >= 1
           /\ stopAt > 0
                => /\ Count(log, "draw") = stopAt
                   /\ step = stopAt
                   /\ Sleeps = stopAt

\* C17, amended: the flag is read only by the loop condition; State::run at
\* the entry of App::run sets it whatever it was. A stop during invocation k
\* of frame_action, not taken back by State::run, leaves the control in the
\* callback, and no further invocation follows; when that invocation returns
\* and the draw meets no device failure, the frame goes on with draw, update
\* of dt and step and the sleep decision, and only then the loop exits. A run
\* ends without any invocation of frame_action only when the frame rate is
\* zero or when Window::open or the first Window::clear fails.
C17_StopAtBoundary ==
    /\ [](stopAt > 0 => (~running /\ Calls = stopAt))
    /\ []((stopAt > 0 /\ pc \in {"close", "returned"} /\ failedIn = "none")
            => /\ step = stopAt
               /\ \E s \in {"sleep", "nosleep"} :
                    AfterLast(log, "call")
                      = << "ret", "draw", "update", s >>
                          \o (IF pc = "returned" THEN << "close" >> ELSE << >>))
    /\ []((Ended /\ Calls = 0)
            => \/ log = << "division_by_zero" >>
               \/ failedIn \in {"open", "clear"})
    /\ []((pc = "returned" /\ failedIn = "none") => (stopAt >= 1 /\ Calls >= 1))
    /\ [][/\ (pc = "NotStarted" /\ pc' = "open") => running'
          /\ (running /\ ~running') => (pc = "callback" /\ pc' = "callback")
          /\ pc' = "close" => (pc = "while" /\ ~running)
          /\ (pc = "while" /\ pc' = "clear") => running
          /\ (~running /\ pc \in {"draw", "update", "sleep"})
               => pc' \in {"update", "sleep", "while", "notice"}]_vars

\* a run whose callback stops on its first invocation: the frame is drawn,
\* counted and followed by a sleep, and the run returns without a second
\* invocation
C17_Witness ==
    /\ pc = "returned"
    /\ failedIn = "none"
    /\ stopAt = 1
    /\ step = 1
    /\ slept > 0
    /\ log = << "run", "open", "frame", "clear", "input", "call", "ret",
                "draw", "update", "sleep", "close" >>

\* no frame is under way
BetweenFrames ==
    pc \in {"while", "close", "returned", "notice", "read", "reclose",
            "panicked"}

\* C18, as stated: of every frame that was started, each step has been taken
\* exactly once.
C18_Original ==
    BetweenFrames
        => /\ Count(log, "clear") = Count(log, "frame")
           /\ Count(log, "input") = Count(log, "frame")
           /\ Calls = Count(log, "frame")
           /\ Count(log, "draw") = Count(log, "frame")
           /\ Count(log, "update") = Count(log, "frame")
           /\ Sleeps = Count(log, "frame")

\* the steps that may follow a step of App::run at once
StepsAfter(e) ==
    CASE e = "run" -> {"open", "open_failed"}
      [] e = "open" -> {"frame"}
      [] e = "frame" -> {"clear", "clear_failed"}
      [] e = "clear" -> {"input"}
      [] e = "input" -> {"call"}
      [] e = "call" -> {"ret", "panic"}
      [] e = "ret" -> {"draw", "draw_failed"}
      [] e = "draw" -> {"update"}
      [] e = "update" -> {"sleep", "nosleep"}
      [] e \in {"sleep", "nosleep"} -> {"frame", "close", "close_failed"}
      [] e \in {"open_failed", "clear_failed", "panic", "draw_failed",
                "close_failed"} -> {"notice", "read_eof", "read_err"}
      [] e = "notice" -> {"read", "read_eof", "read_err"}
      [] e = "read" -> {"close", "close_failed"}
      [] OTHER -> {}

\* the steps that may come at once before a step of a frame
StepsBefore(e) ==
    CASE e = "frame" -> {"open", "sleep", "nosleep"}
      [] e = "clear" -> {"frame"}
      [] e = "input" -> {"clear"}
      [] e = "call" -> {"input"}
      [] e = "ret" -> {"call"}
      [] e = "draw" -> {"ret"}
      [] e = "update" -> {"draw"}
      [] e \in {"sleep", "nosleep"} -> {"update"}
      [] OTHER -> {"run", "open", "frame", "clear", "input", "call", "ret",
                   "draw", "update", "sleep", "nosleep", "open_failed",
                   "clear_failed", "panic", "draw_failed", "close_failed",
                   "notice", "read"}

\* C18, amended: the steps of every frame are taken in the order
\* Window::clear, consume_key_events, frame_action, Window::draw, update of
\* dt and step, sleep decision, none twice and none left out; a frame ends
\* early only where Window::clear, frame_action or Window::draw panics, and
\* then no later step of it is taken; Window::open comes once, before the
\* first frame; between frames every step has been taken once per frame,
\* but for the steps from the panic on of a frame that a panic ended.
C18_FrameOrder ==
    /\ \A i \in 1..(Len(log) - 1) :
         /\ log[i + 1] \in StepsAfter(log[i])
         /\ log[i] \in StepsBefore(log[i + 1])
    /\ Has(log, "frame")
         => (log[1] = "run" /\ log[2] = "open" /\ Count(log, "open") = 1)
    /\ step = Count(log, "update")
    /\ BetweenFrames
         => LET Cut(where) == IF failedIn = where THEN 1 ELSE 0
            IN  /\ Count(log, "clear") = Count(log, "frame") - Cut("clear")
                /\ Count(log, "input") = Count(log, "clear")
                /\ Calls = Count(log, "clear")
                /\ Count(log, "ret") = Calls - Cut("callback")
                /\ Count(log, "draw") = Count(log, "ret") - Cut("draw")
                /\ Count(log, "update") = Count(log, "draw")
                /\ Sleeps = Count(log, "draw")

\* a run of two whole frames, the second with a sleep
C18_Witness ==
    /\ pc = "returned"
    /\ failedIn = "none"
    /\ Count(log, "frame") = 2
    /\ Count(log, "input") = 2
    /\ log[3] = "frame"
    /\ log[4] = "clear"
    /\ log[Len(log) - 1] = "sleep"

---------------------------------------------------------------------------
(* Window::draw against a renderer that sets both colors for every cell *)

\* what the terminal shows of a sequence of device operations: pen is its
\* current foreground and background code, -1 while no command has set it,
\* and the place the next character goes to, counted in cells from the
\* origin, -1 while no command has set it; out is the characters it was
\* given, each with the place and the colors it was printed in
RECURSIVE Paint(_, _, _)
Paint(ops, pen, out) ==
    IF ops = << >> THEN out
    ELSE LET o == Head(ops)
             k == IF o.op = "queue" THEN o.cmd.c ELSE "none"
         IN  CASE k = "SetForegroundColor" ->
                    Paint(Tail(ops), [pen EXCEPT !.fg = o.cmd.code], out)
               [] k = "SetBackgroundColor" ->
                    Paint(Tail(ops), [pen EXCEPT !.bg = o.cmd.code], out)
               [] k = "MoveTo" ->
                    Paint(Tail(ops),
                          [pen EXCEPT !.at = IF o.cmd.x = 0 /\ o.cmd.y = 0
                                             THEN 0 ELSE -1],
                          out)
               [] k = "Print" ->
                    Paint(Tail(ops),
                          [pen EXCEPT !.at = IF pen.at < 0 THEN -1 ELSE pen.at + 1],
                          Append(out, [at |-> pen.at, ch |-> o.cmd.ch,
                                       fg |-> pen.fg, bg |-> pen.bg]))
               [] OTHER -> Paint(Tail(ops), pen, out)

Painted(ops) == Paint(ops, [fg |-> -1, bg |-> -1, at |-> -1], << >>)

\* what the renderer that sets both colors for every cell makes the
\* terminal show: cell i at place i - 1, in its own colors
Naive(c) ==
    [i \in 1..Len(c.data) |->
       [at |-> i - 1, ch |-> c.data[i].value,
        fg |-> Code(c.data[i].foreground),
        bg |-> Code(c.data[i].background)]]

\* C19: for every canvas and default element, what the terminal shows of a
\* draw is what it shows of the renderer that sets both colors for every
\* cell: one character per cell, in row-major order from the origin with no
\* cursor move in between, each in the colors of its cell; the draw queues
\* nothing but color, cursor-origin and character commands, and flushes once,
\* as its last operation, leaving nothing in the buffer.
C19_DrawPaintsCanvas ==
    Drawn
        => /\ Painted(devlog) = Naive(canvas)
           /\ \A i \in 1..Len(devlog) :
                \/ /\ devlog[i].op = "queue"
                   /\ devlog[i].cmd.c \in {"SetForegroundColor",
                                           "SetBackgroundColor", "Print"}
                \/ /\ devlog[i] = Queue(MoveTo(0, 0))
                   /\ i = 3 \/ i = Len(devlog) - 1
                \/ /\ devlog[i] = Flush
                   /\ i = Len(devlog)
           /\ devlog[3] = Queue(MoveTo(0, 0))
           /\ devlog[Len(devlog)] = Flush
           /\ Count(devlog, Flush) = 1
           /\ target = << >>

\* a draw of four cells in which all three elements occur, the first cell
\* being the default element, which is not the initial one
C19_Witness ==
    /\ Drawn
    /\ Len(canvas.data) = 4
    /\ canvas.default_element # VisualElementNew
    /\ canvas.data[1] = canvas.default_element
    /\ {canvas.data[i] : i \in 1..4} = Elems
    /\ Len(Painted(devlog)) = 4

=============================================================================
